---- MODULE Spec2Model ----
(***************************************************************************)
(* Dictionary indexing of experimental patterns to a dictionary of         *)
(* simulated patterns (kikuchipy/indexing/_dictionary_indexing.py).        *)
(*                                                                         *)
(* One call of _dictionary_indexing() is a small state machine: entry,     *)
(* the single-pass fast path or the multi-chunk loop (materialise a chunk, *)
(* _match_chunk(), merge into the running top-k buffers), and the          *)
(* construction of the returned crystal map.  The similarity tensor that   *)
(* metric.match() returns is an input: similarity[r][d] is the score of    *)
(* experimental row r against dictionary row d (0-based, as in the code).  *)
(***************************************************************************)
EXTENDS Integers, Sequences, FiniteSets, TLC

\* ---------------------------------------------------------------- bounds
MaxCells == 4       \* n_experimental * dictionary_size of the similarity tensor
MaxExp == 2         \* experimental rows
MaxKeep == 3        \* largest keep_n a caller passes
MaxCalls == 2       \* calls of _dictionary_indexing in one behaviour
MaxChunkDict == 24  \* dictionary_size in the chunk-boundary specification
MaxPixelValue == 4  \* largest absolute pixel value passed to the kernel
MaxKernelRows == 2  \* rows of the array passed to the kernel
MaxPasses == 2      \* kernel calls in one behaviour
MaxNav == 3         \* navigation points of the signal passed to refinement
MaxOrderDict == 3   \* dictionary_size where the chunks are merged in any order
MaxTwoDict == 3     \* dictionary_size shared by two invocations
MaxMaskColumns == 3 \* pixels of a pattern the signal mask is applied to

\* Scores a normalized metric produces (normalized dot product lies in [-1, 1]).
ScoreValues == {-1, 0, 1}
\* metric.sign: +1 if a greater score is better, -1 if a lower score is better.
Signs == {-1, 1}
\* How a sort orders equal keys ("first": lower position first).
TieOrders == {"first", "last"}
\* Pattern-vector lengths after masking.
PixelCounts == {2, 3}

VARIABLES
    \* ---- arguments of the call and properties of the build
    n_experimental,      \* int(np.prod(experimental_nav_shape))
    dictionary_size,     \* dictionary.shape[0]
    similarity,          \* metric.match() of every (experimental, dictionary) pair
    keep_n_arg,          \* keep_n as passed by the caller
    n_per_iteration,
    sign,                \* metric.sign
    exp_pixels,          \* pattern-vector length of the prepared experimental
    dict_pixels,         \* pattern-vector length of the prepared dictionary
    topk_ties,           \* order of equal scores in dask's argtopk
    argsort_ties,        \* order of equal keys in np.argsort
    \* ---- locals of _dictionary_indexing
    pc,
    keep_n,
    n_iterations,
    chunk_starts,
    chunk_ends,
    it,                  \* position in zip(chunk_starts, chunk_ends), from 1
    simulated,           \* <<start, end>> of the chunk bound to simulated,
                         \* <<>> before the first iteration
    scores_i,
    simulation_indices_i,
    scores,
    simulation_indices,
    xmap,                \* <<>> until returned, then <<the crystal map>>
    error,               \* "" or the exception that left the call
    \* ---- history
    is_fill,             \* which buffer entries still are the initial fill
    n_prepared,          \* metric.prepare_dictionary() calls of this call
    n_merged,            \* merges of this call
    merged,              \* positions of the chunks merged, in merge order
    experimental,        \* times the experimental patterns of this call
                         \* went through metric.prepare_experimental
    match_inputs,        \* values of experimental passed to _match_chunk
    calls,               \* calls started
    first_result,        \* outcome of the first call, <<>> during it
    \* ---- a second invocation running at the same time
    other,               \* arguments and locals of the invocation that is
                         \* not running now, <<>> when there is none
    active,              \* the invocation whose locals the variables hold
    \* ---- _prepare_simulated_patterns1d_* (normalization kernel)
    sim,                 \* the array passed in, rows of pixel values
    simulated_prepared,  \* the array returned
    rows_done,           \* iterations of the prange loop that have run
    in_flight,           \* per row: the value of _normalize_pattern1d(sim[i])
                         \* not yet stored, <<>> when there is none
    kernel_pc,
    passes,              \* kernel calls started
    \* ---- NormalizedDotProductMetric
    signal_mask,         \* metric.signal_mask
    exp_patterns,        \* patterns of prepare_all_experimental, after the
                         \* reshape to (n_experimental, -1)
    dict_patterns,       \* patterns of prepare_chunk_simulated
    exp_prepared,        \* what prepare_all_experimental returned
    similarities,        \* what compare returned
    metric_pc,
    metric_error,
    \* ---- EBSD.refine_orientation
    refine_args,
    refine_pc,
    refine_error,
    n_optimized,         \* navigation points the optimizer was run on
    refine_result

driver_vars == <<n_experimental, dictionary_size, similarity, keep_n_arg,
          n_per_iteration, sign, exp_pixels, dict_pixels, topk_ties,
          argsort_ties, pc, keep_n, n_iterations, chunk_starts, chunk_ends,
          it, simulated, scores_i, simulation_indices_i, scores,
          simulation_indices, xmap, error, is_fill, n_prepared, n_merged,
          merged, experimental, match_inputs, calls, first_result,
          other, active>>

metric_vars == <<signal_mask, exp_patterns, dict_patterns, exp_prepared,
                 similarities, metric_pc, metric_error>>

kernel_vars == <<sim, simulated_prepared, rows_done, in_flight, kernel_pc,
                 passes, metric_vars>>

refine_vars == <<refine_args, refine_pc, refine_error, n_optimized,
                 refine_result>>

vars == <<driver_vars, kernel_vars, refine_vars>>

inputs == <<n_experimental, dictionary_size, similarity, keep_n_arg,
            n_per_iteration, sign, exp_pixels, dict_pixels, topk_ties,
            argsort_ties>>

\* ------------------------------------------------------------ arithmetic
Min(a, b) == IF a <= b THEN a ELSE b
Max(a, b) == IF a >= b THEN a ELSE b

\* Python's a // b for a >= 0 and b # 0 (rounds towards minus infinity).
FloorDiv(a, b) ==
    IF b > 0 THEN a \div b ELSE 0 - ((a + (0 - b) - 1) \div (0 - b))

\* Python's [x] * n: the empty list when n <= 0.
Repeat(x, n) == [j \in 1..n |-> x]

RECURSIVE SumTo(_, _)
SumTo(s, j) == IF j = 0 THEN 0 ELSE SumTo(s, j - 1) + s[j]

\* np.cumsum of a list.
Cumsum(s) == [j \in 1..Len(s) |-> SumTo(s, j)]

\* ------------------------------------------------------- chunk boundaries
\* Variant: the first chunk starts at row 1.
ChunkStartsFromOne(npi, n_iter) == Cumsum(<<1>> \o Repeat(npi, n_iter - 1))

\* np.cumsum([0] + [n_per_iteration] * (n_iterations - 1))
ChunkStarts(npi, n_iter) == Cumsum(<<0>> \o Repeat(npi, n_iter - 1))

ChunkEndsRaw(npi, n_iter) == Cumsum(Repeat(npi, n_iter))

\* Variant: the last end is left at n_iterations * n_per_iteration.
ChunkEndsNoRemainder(npi, n_iter, dsize) == ChunkEndsRaw(npi, n_iter)

\* chunk_ends[-1] = max(chunk_ends[-1], dictionary_size); the caller has
\* checked that the array is not empty.
ChunkEnds(npi, n_iter, dsize) ==
    LET raw == ChunkEndsRaw(npi, n_iter)
    IN  [raw EXCEPT ![Len(raw)] = Max(raw[Len(raw)], dsize)]

\* Number of (start, end) pairs zip() yields.
NChunks == Min(Len(chunk_starts), Len(chunk_ends))

\* ------------------------------------------------------------ _match_chunk
Before(ties, i, j) == IF ties = "first" THEN i < j ELSE i > j

\* metric.match(experimental, simulated) for the chunk [start, end):
\* columns are chunk-local, 0 .. end - start - 1.
Similarities(start, end) ==
    [r \in 1..n_experimental |->
        [c \in 0..(end - start - 1) |-> similarity[r][start + c]]]

\* Variant: the columns are counted from 1.
ArgTopKOneBased(vals, m, k) ==
    LET rank(j) == Cardinality({i \in 0..(m - 1) :
                       \/ vals[i] > vals[j]
                       \/ vals[i] = vals[j] /\ Before(topk_ties, i, j)})
    IN  [p \in 1..Min(k, m) |->
            (CHOOSE j \in 0..(m - 1) : rank(j) = p - 1) + 1]

\* similarities.argtopk(k, axis=-1) of one row, k >= 1: the columns of the k
\* largest values, largest first.
ArgTopK(vals, m, k) ==
    LET rank(j) == Cardinality({i \in 0..(m - 1) :
                       \/ vals[i] > vals[j]
                       \/ vals[i] = vals[j] /\ Before(topk_ties, i, j)})
    IN  [p \in 1..Min(k, m) |-> CHOOSE j \in 0..(m - 1) : rank(j) = p - 1]

\* similarities.topk(k, axis=-1) of one row, k >= 1: the k largest values,
\* largest first.
TopK(vals, m, k) ==
    [p \in 1..Min(k, m) |->
        CHOOSE v \in {vals[i] : i \in 0..(m - 1)} :
            /\ Cardinality({i \in 0..(m - 1) : vals[i] > v}) < p
            /\ Cardinality({i \in 0..(m - 1) : vals[i] >= v}) >= p]

\* The arrays _match_chunk returns for the chunk [start, end) and keep_n = k.
MatchChunk(start, end, k) ==
    LET sims == Similarities(start, end)
    IN  [simulation_indices |->
            [r \in 1..n_experimental |-> ArgTopK(sims[r], end - start, k)],
         scores |->
            [r \in 1..n_experimental |-> TopK(sims[r], end - start, k)]]

\* Variant: the chunk-local indices are stored as they are.
ToGlobalNoOffset(indices, start) == indices

\* simulation_indices_i += start
ToGlobal(indices, start) ==
    [r \in DOMAIN indices |->
        [p \in DOMAIN indices[r] |-> indices[r][p] + start]]

\* Variant: operands of different pixel counts are contracted anyway.
ShapesAlignAlways(e, d) == TRUE

\* The einsum in metric.match contracts the pixel axis of both operands.
ShapesAlign(e, d) == e = d

\* --------------------------------------------------------- running buffers
\* Variant: the index buffer of an earlier call that returned is reused.
InitialIndicesStale(n, k) ==
    IF first_result # <<>> /\ first_result[1].xmap # <<>>
    THEN first_result[1].xmap[1].simulation_indices
    ELSE [r \in 1..n |-> [p \in 1..k |-> 0]]

\* np.zeros((n_experimental, keep_n), dtype=np.int32)
InitialIndices(n, k) == [r \in 1..n |-> [p \in 1..k |-> 0]]

\* np.full((n_experimental, keep_n), metric.sign, dtype=metric.dtype)
InitialScores(n, k) == [r \in 1..n |-> [p \in 1..k |-> sign]]

\* np.argsort(keys) of one row: positions (from 1) in ascending key order.
Argsort(keys) ==
    LET n == Len(keys)
        rank(j) == Cardinality({i \in 1..n :
                       \/ keys[i] < keys[j]
                       \/ keys[i] = keys[j] /\ Before(argsort_ties, i, j)})
    IN  [p \in 1..n |-> CHOOSE j \in 1..n : rank(j) = p - 1]

\* Variant: the sorted candidates are not cut to keep_n.
BestIndicesUncut(all_scores, k) ==
    LET negative_sign == 0 - sign
        keys == [j \in 1..Len(all_scores) |-> negative_sign * all_scores[j]]
    IN  Argsort(keys)

\* Variant: no sort, the last keep_n candidates of the row are kept.
BestIndicesNewest(all_scores, k) ==
    LET n == Len(all_scores)
    IN  [p \in 1..k |-> n - k + p]

\* np.argsort(negative_sign * all_scores, axis=1)[:, :keep_n] of one row.
BestIndices(all_scores, k) ==
    LET negative_sign == 0 - sign
        keys == [j \in 1..Len(all_scores) |-> negative_sign * all_scores[j]]
    IN  SubSeq(Argsort(keys), 1, k)

\* np.take_along_axis(a, best_indices, axis=1) of one row.
TakeAlong(a, best) == [p \in 1..Len(best) |-> a[best[p]]]

\* Lines 121-129 for an array a that runs along with the scores: hstack of
\* the running rows and the chunk's rows, permuted by best_indices.
MergeRows(a, a_i, scs, scs_i, k) ==
    [r \in 1..n_experimental |->
        TakeAlong(a[r] \o a_i[r], BestIndices(scs[r] \o scs_i[r], k))]

\* ------------------------------------------------------------------- Init
\* No mask is configured (the integer placeholder).
NoSignalMask == [is_int |-> TRUE, array |-> <<>>]

\* No method of the metric is running.
MetricIdle ==
    /\ signal_mask = NoSignalMask
    /\ exp_patterns = <<>>
    /\ dict_patterns = <<>>
    /\ exp_prepared = <<>>
    /\ similarities = <<>>
    /\ metric_pc = "idle"
    /\ metric_error = ""

\* No kernel call is in progress.
KernelIdle ==
    /\ MetricIdle
    /\ sim = <<>>
    /\ simulated_prepared = <<>>
    /\ rows_done = {}
    /\ in_flight = <<>>
    /\ kernel_pc = "idle"
    /\ passes = 0

\* No refinement call is in progress.
RefineIdle ==
    /\ refine_args = <<>>
    /\ refine_pc = "idle"
    /\ refine_error = ""
    /\ n_optimized = 0
    /\ refine_result = <<>>

ZeroSimilarity(n, d) == [r \in 1..n |-> [c \in 0..(d - 1) |-> 0]]

\* The locals before the first statement of a call.
FreshLocals ==
    /\ pc = "enter"
    /\ keep_n = 0
    /\ n_iterations = 0
    /\ chunk_starts = <<>>
    /\ chunk_ends = <<>>
    /\ it = 0
    /\ simulated = <<>>
    /\ scores_i = <<>>
    /\ simulation_indices_i = <<>>
    /\ scores = <<>>
    /\ simulation_indices = <<>>
    /\ xmap = <<>>
    /\ error = ""
    /\ is_fill = <<>>
    /\ n_prepared = 0
    /\ n_merged = 0
    /\ merged = <<>>
    /\ experimental = 0
    /\ match_inputs = {}

\* One invocation only.
SingleCall ==
    /\ other = <<>>
    /\ active = 1

\* A call reaches the computation of the similarity tensor.
Computes(k, npi, d, ep, dp) == k >= 1 /\ npi >= 1 /\ npi <= d /\ ep = dp

Init ==
    /\ n_experimental \in 1..MaxExp
    /\ dictionary_size \in 1..Max(1, MaxCells \div n_experimental)
    /\ keep_n_arg \in (0 - 1)..MaxKeep
    /\ n_per_iteration \in (0 - 1)..(dictionary_size + 1)
    /\ sign \in Signs
    /\ exp_pixels = 2
    /\ dict_pixels \in PixelCounts
    /\ topk_ties \in TieOrders
    /\ argsort_ties \in TieOrders
    /\ similarity \in
         IF Computes(keep_n_arg, n_per_iteration, dictionary_size,
                     exp_pixels, dict_pixels)
         THEN [1..n_experimental -> [0..(dictionary_size - 1) -> ScoreValues]]
         ELSE {ZeroSimilarity(n_experimental, dictionary_size)}
    /\ FreshLocals
    /\ calls = 1
    /\ first_result = <<>>
    /\ SingleCall
    /\ KernelIdle
    /\ RefineIdle

\* ---------------------------------------------------------------- actions
Raise(e) ==
    /\ pc' = "error"
    /\ error' = e

\* Variant: the patterns are passed on as they came.
PrepareExperimentalSkipped(e) == e

\* experimental = metric.prepare_experimental(experimental)
PrepareExperimental(e) == e + 1

\* Lines 64-83: sizes, clamp of keep_n, preparation of the experimental
\* patterns, number of iterations.
Enter ==
    /\ pc = "enter"
    /\ IF n_per_iteration = 0
       THEN /\ Raise("ZeroDivisionError")
            /\ UNCHANGED <<keep_n, n_iterations, experimental>>
       ELSE /\ keep_n' = Min(keep_n_arg, dictionary_size)
            /\ n_iterations' = FloorDiv(dictionary_size, n_per_iteration)
            /\ experimental' = PrepareExperimental(experimental)
            /\ pc' = "dispatch"
            /\ UNCHANGED error
    /\ UNCHANGED <<inputs, chunk_starts, chunk_ends, it, simulated, scores_i,
                   simulation_indices_i, scores, simulation_indices, xmap,
                   is_fill, n_prepared, n_merged, calls, first_result>>
    /\ UNCHANGED <<merged, kernel_vars, refine_vars, other, active>>
    /\ UNCHANGED <<match_inputs>>

\* Lines 85-93: the whole dictionary in one _match_chunk call.
FastPath ==
    /\ pc = "dispatch"
    /\ dictionary_size = n_per_iteration
    /\ n_prepared' = n_prepared + 1
    /\ IF ~ShapesAlign(exp_pixels, dict_pixels)
       THEN /\ Raise("ShapeMismatch")
            /\ UNCHANGED <<scores, simulation_indices, is_fill>>
       ELSE IF keep_n <= 0
       THEN /\ Raise("ReshapeError")
            /\ UNCHANGED <<scores, simulation_indices, is_fill>>
       ELSE LET m == MatchChunk(0, dictionary_size, keep_n)
            IN  /\ scores' = m.scores
                /\ simulation_indices' = m.simulation_indices
                /\ is_fill' = [r \in 1..n_experimental |->
                                  [p \in 1..keep_n |-> FALSE]]
                /\ pc' = "build"
                /\ UNCHANGED error
    /\ UNCHANGED <<inputs, keep_n, n_iterations, chunk_starts, chunk_ends, it,
                   simulated, scores_i, simulation_indices_i, xmap, n_merged,
                   calls, first_result>>
    /\ UNCHANGED <<merged, kernel_vars, refine_vars, other, active>>
    /\ match_inputs' = match_inputs \cup {experimental}
    /\ UNCHANGED experimental

\* Lines 95-104: initial buffers and chunk boundaries.
InitBuffers ==
    /\ pc = "dispatch"
    /\ dictionary_size # n_per_iteration
    /\ IF keep_n < 0
       THEN /\ Raise("ValueError")
            /\ UNCHANGED <<scores, simulation_indices, is_fill, chunk_starts,
                           chunk_ends, it>>
       ELSE /\ simulation_indices' = InitialIndices(n_experimental, keep_n)
            /\ scores' = InitialScores(n_experimental, keep_n)
            /\ is_fill' = [r \in 1..n_experimental |->
                              [p \in 1..keep_n |-> TRUE]]
            /\ chunk_starts' = ChunkStarts(n_per_iteration, n_iterations)
            /\ IF Len(ChunkEndsRaw(n_per_iteration, n_iterations)) = 0
               THEN /\ Raise("IndexError")
                    /\ UNCHANGED <<chunk_ends, it>>
               ELSE /\ chunk_ends' = ChunkEnds(n_per_iteration, n_iterations,
                                               dictionary_size)
                    /\ it' = 1
                    /\ pc' = "loop"
                    /\ UNCHANGED error
    /\ UNCHANGED <<inputs, keep_n, n_iterations, simulated, scores_i,
                   simulation_indices_i, xmap, n_prepared, n_merged, calls,
                   first_result>>
    /\ UNCHANGED <<merged, kernel_vars, refine_vars, other, active>>
    /\ UNCHANGED <<experimental, match_inputs>>

\* Variant: the loop walks the chunk ranges from the last to the first.
MaterialiseLastFirst ==
    /\ pc = "loop"
    /\ IF it > NChunks
       THEN /\ pc' = "build"
            /\ UNCHANGED simulated
       ELSE /\ simulated' = <<chunk_starts[NChunks + 1 - it],
                              chunk_ends[NChunks + 1 - it]>>
            /\ pc' = "match"
    /\ UNCHANGED <<inputs, keep_n, n_iterations, chunk_starts, chunk_ends, it,
                   scores_i, simulation_indices_i, scores, simulation_indices,
                   xmap, error, is_fill, n_prepared, n_merged, calls,
                   first_result>>
    /\ UNCHANGED <<merged, kernel_vars, refine_vars, other, active>>
    /\ UNCHANGED <<experimental, match_inputs>>

\* Lines 105-109: next (start, end) of the loop, chunk brought into memory.
Materialise ==
    /\ pc = "loop"
    /\ IF it > NChunks
       THEN /\ pc' = "build"
            /\ UNCHANGED simulated
       ELSE /\ simulated' = <<chunk_starts[it], chunk_ends[it]>>
            /\ pc' = "match"
    /\ UNCHANGED <<inputs, keep_n, n_iterations, chunk_starts, chunk_ends, it,
                   scores_i, simulation_indices_i, scores, simulation_indices,
                   xmap, error, is_fill, n_prepared, n_merged, calls,
                   first_result>>
    /\ UNCHANGED <<merged, kernel_vars, refine_vars, other, active>>
    /\ UNCHANGED <<experimental, match_inputs>>

\* Lines 111-119: _match_chunk on the chunk, compute, local to global indices.
MatchChunkStep ==
    /\ pc = "match"
    /\ n_prepared' = n_prepared + 1
    /\ LET start == simulated[1]
           end == simulated[2]
           k == Min(keep_n, end - start)
       IN  IF ~ShapesAlign(exp_pixels, dict_pixels)
           THEN /\ Raise("ShapeMismatch")
                /\ UNCHANGED <<scores_i, simulation_indices_i>>
           ELSE IF k <= 0
           THEN /\ Raise("ReshapeError")
                /\ UNCHANGED <<scores_i, simulation_indices_i>>
           ELSE LET m == MatchChunk(start, end, k)
                IN  /\ scores_i' = m.scores
                    /\ simulation_indices_i' =
                         ToGlobal(m.simulation_indices, start)
                    /\ pc' = "merge"
                    /\ UNCHANGED error
    /\ UNCHANGED <<inputs, keep_n, n_iterations, chunk_starts, chunk_ends, it,
                   simulated, scores, simulation_indices, xmap, is_fill,
                   n_merged, calls, first_result>>
    /\ UNCHANGED <<merged, kernel_vars, refine_vars, other, active>>
    /\ match_inputs' = match_inputs \cup {experimental}
    /\ UNCHANGED experimental

\* Lines 121-129: merge of the chunk's top-k into the running top-k.
Merge ==
    /\ pc = "merge"
    /\ scores' = MergeRows(scores, scores_i, scores, scores_i, keep_n)
    /\ simulation_indices' = MergeRows(simulation_indices, simulation_indices_i,
                                       scores, scores_i, keep_n)
    /\ is_fill' = MergeRows(is_fill,
                            [r \in 1..n_experimental |->
                                [p \in 1..Len(scores_i[r]) |-> FALSE]],
                            scores, scores_i, keep_n)
    /\ n_merged' = n_merged + 1
    /\ merged' = Append(merged, it)
    /\ it' = it + 1
    /\ pc' = "loop"
    /\ UNCHANGED <<inputs, keep_n, n_iterations, chunk_starts, chunk_ends,
                   simulated, scores_i, simulation_indices_i, xmap, error,
                   n_prepared, calls, first_result>>
    /\ UNCHANGED <<kernel_vars, refine_vars, other, active>>
    /\ UNCHANGED <<experimental, match_inputs>>

\* Variant: a failure inside the loop is caught and the chunk is skipped.
ChunkFailsSkipsChunk ==
    /\ \/ pc = "dispatch" /\ dictionary_size = n_per_iteration
       \/ pc = "loop" /\ it <= NChunks
       \/ pc = "match"
    /\ IF pc = "dispatch"
       THEN /\ Raise("IOError")
            /\ UNCHANGED <<it, simulated>>
       ELSE /\ pc' = "loop"
            /\ it' = it + 1
            /\ simulated' = <<>>
            /\ UNCHANGED error
    /\ UNCHANGED <<inputs, keep_n, n_iterations, chunk_starts, chunk_ends,
                   scores_i, simulation_indices_i, scores,
                   simulation_indices, xmap, is_fill, n_prepared, n_merged,
                   calls, first_result>>
    /\ UNCHANGED <<merged, kernel_vars, refine_vars, other, active>>
    /\ UNCHANGED <<experimental, match_inputs>>

\* Lines 93, 107, 118: materialising or computing a chunk raises; nothing in
\* _dictionary_indexing catches it.
ChunkFails ==
    /\ \/ pc = "dispatch" /\ dictionary_size = n_per_iteration
       \/ pc = "loop" /\ it <= NChunks
       \/ pc = "match"
    /\ Raise("IOError")
    /\ UNCHANGED <<inputs, keep_n, n_iterations, chunk_starts, chunk_ends, it,
                   simulated, scores_i, simulation_indices_i, scores,
                   simulation_indices, xmap, is_fill, n_prepared, n_merged,
                   calls, first_result>>
    /\ UNCHANGED <<merged, kernel_vars, refine_vars, other, active>>
    /\ UNCHANGED <<experimental, match_inputs>>

\* dictionary_xmap.rotations[d]: the orientation of dictionary row d.
DictionaryRotation(d) == <<"rotation", d>>

\* Variant: the rotations are taken in dictionary order, rank by rank.
CrystalMapByRank(scs, indices) ==
    [rotations |-> [r \in DOMAIN indices |->
                       [p \in DOMAIN indices[r] |-> DictionaryRotation(p - 1)]],
     scores |-> scs,
     simulation_indices |-> indices]

\* CrystalMap(rotations=dictionary_xmap.rotations[simulation_indices],
\*            prop={"scores": scores, "simulation_indices": simulation_indices})
CrystalMap(scs, indices) ==
    [rotations |-> [r \in DOMAIN indices |->
                       [p \in DOMAIN indices[r] |->
                           DictionaryRotation(indices[r][p])]],
     scores |-> scs,
     simulation_indices |-> indices]

\* Lines 131-141: the crystal map that is returned.
BuildXmap ==
    /\ pc = "build"
    /\ xmap' = <<CrystalMap(scores, simulation_indices)>>
    /\ pc' = "done"
    /\ UNCHANGED <<inputs, keep_n, n_iterations, chunk_starts, chunk_ends, it,
                   simulated, scores_i, simulation_indices_i, scores,
                   simulation_indices, error, is_fill, n_prepared, n_merged,
                   calls, first_result>>
    /\ UNCHANGED <<merged, kernel_vars, refine_vars, other, active>>
    /\ UNCHANGED <<experimental, match_inputs>>

\* The caller calls _dictionary_indexing again with the same arguments.
CallAgain ==
    /\ pc \in {"done", "error"}
    /\ calls < MaxCalls
    /\ calls' = calls + 1
    /\ first_result' = <<[xmap |-> xmap, error |-> error]>>
    /\ pc' = "enter"
    /\ keep_n' = 0
    /\ n_iterations' = 0
    /\ chunk_starts' = <<>>
    /\ chunk_ends' = <<>>
    /\ it' = 0
    /\ simulated' = <<>>
    /\ scores_i' = <<>>
    /\ simulation_indices_i' = <<>>
    /\ scores' = <<>>
    /\ simulation_indices' = <<>>
    /\ xmap' = <<>>
    /\ error' = ""
    /\ is_fill' = <<>>
    /\ n_prepared' = 0
    /\ n_merged' = 0
    /\ merged' = <<>>
    /\ experimental' = 0
    /\ match_inputs' = {}
    /\ UNCHANGED inputs
    /\ UNCHANGED <<kernel_vars, refine_vars, other, active>>

Next ==
    \/ Enter
    \/ FastPath
    \/ InitBuffers
    \/ Materialise
    \/ MatchChunkStep
    \/ Merge
    \/ ChunkFails
    \/ BuildXmap
    \/ CallAgain

Spec == Init /\ [][Next]_vars

\* ------------------------------------------- large dictionaries, few scores
\* Similarity of a dictionary whose scores repeat with period three.
SawSimilarity(n, d) == [r \in 1..n |-> [c \in 0..(d - 1) |-> (c % 3) - 1]]

InitChunks ==
    /\ n_experimental = 1
    /\ dictionary_size \in 1..MaxChunkDict
    /\ keep_n_arg \in 1..2
    /\ n_per_iteration \in 1..dictionary_size
    /\ sign \in Signs
    /\ exp_pixels = 2
    /\ dict_pixels = 2
    /\ topk_ties = "first"
    /\ argsort_ties = "first"
    /\ similarity \in {ZeroSimilarity(n_experimental, dictionary_size),
                       SawSimilarity(n_experimental, dictionary_size)}
    /\ FreshLocals
    /\ calls = 1
    /\ first_result = <<>>
    /\ SingleCall
    /\ KernelIdle
    /\ RefineIdle

SpecChunks == InitChunks /\ [][Next]_vars

\* ------------------------------------------- chunks merged in any order
\* Scores of a metric whose values are not bounded by 1 in magnitude.
UnboundedScores == (0 - 2)..2

\* Scores worse than, equal to and better than the fill value metric.sign.
ScoresAroundFill(sg) == {0, sg, 2 * sg}

InitAnyOrder ==
    /\ n_experimental = 1
    /\ dictionary_size \in 2..MaxOrderDict
    /\ keep_n_arg \in 1..2
    /\ n_per_iteration \in 1..(dictionary_size - 1)
    /\ sign \in Signs
    /\ exp_pixels = 2
    /\ dict_pixels = 2
    /\ topk_ties = "first"
    /\ argsort_ties \in TieOrders
    /\ similarity \in
         [1..n_experimental ->
             [0..(dictionary_size - 1) -> ScoresAroundFill(sign)]]
    /\ FreshLocals
    /\ calls = 1
    /\ first_result = <<>>
    /\ SingleCall
    /\ KernelIdle
    /\ RefineIdle

\* The loop of lines 105-109 run over the same chunk ranges in an order of
\* the caller's choice: any chunk not merged yet is brought into memory.
MaterialiseAnyOrder ==
    /\ pc = "loop"
    /\ LET pending == (1..NChunks) \ {merged[j] : j \in DOMAIN merged}
       IN  IF pending = {}
           THEN /\ pc' = "build"
                /\ UNCHANGED <<simulated, it>>
           ELSE /\ \E j \in pending :
                      /\ it' = j
                      /\ simulated' = <<chunk_starts[j], chunk_ends[j]>>
                /\ pc' = "match"
    /\ UNCHANGED <<inputs, keep_n, n_iterations, chunk_starts, chunk_ends,
                   scores_i, simulation_indices_i, scores, simulation_indices,
                   xmap, error, is_fill, n_prepared, n_merged, calls,
                   first_result>>
    /\ UNCHANGED <<merged, kernel_vars, refine_vars, other, active>>
    /\ UNCHANGED <<experimental, match_inputs>>

NextAnyOrder ==
    \/ Enter
    \/ InitBuffers
    \/ MaterialiseAnyOrder
    \/ MatchChunkStep
    \/ Merge
    \/ BuildXmap

SpecAnyOrder == InitAnyOrder /\ [][NextAnyOrder]_vars

\* ------------------------------------------------- two invocations at once
\* Two invocations of _dictionary_indexing, each with its own arguments
\* keep_n and n_per_iteration, share the experimental patterns, the
\* dictionary and the metric; their statements interleave in any order.
\* The arguments and locals of the invocation that is running now.
Suspended ==
    [keep_n_arg |-> keep_n_arg,
     n_per_iteration |-> n_per_iteration,
     pc |-> pc,
     keep_n |-> keep_n,
     n_iterations |-> n_iterations,
     chunk_starts |-> chunk_starts,
     chunk_ends |-> chunk_ends,
     it |-> it,
     simulated |-> simulated,
     scores_i |-> scores_i,
     simulation_indices_i |-> simulation_indices_i,
     scores |-> scores,
     simulation_indices |-> simulation_indices,
     xmap |-> xmap,
     error |-> error,
     is_fill |-> is_fill,
     n_prepared |-> n_prepared,
     n_merged |-> n_merged,
     merged |-> merged,
     experimental |-> experimental,
     match_inputs |-> match_inputs]

\* The arguments and locals of an invocation that has not started.
NotStarted(k, npi) ==
    [Suspended EXCEPT
        !.keep_n_arg = k, !.n_per_iteration = npi, !.pc = "enter",
        !.keep_n = 0, !.n_iterations = 0, !.chunk_starts = <<>>,
        !.chunk_ends = <<>>, !.it = 0, !.simulated = <<>>, !.scores_i = <<>>,
        !.simulation_indices_i = <<>>, !.scores = <<>>,
        !.simulation_indices = <<>>, !.xmap = <<>>, !.error = "",
        !.is_fill = <<>>, !.n_prepared = 0, !.n_merged = 0, !.merged = <<>>,
        !.experimental = 0, !.match_inputs = {}]

InitTwoCalls ==
    /\ n_experimental = 1
    /\ dictionary_size \in 2..MaxTwoDict
    /\ keep_n_arg \in 1..2
    /\ n_per_iteration \in 1..dictionary_size
    /\ sign \in Signs
    /\ exp_pixels = 2
    /\ dict_pixels = 2
    /\ topk_ties = "first"
    /\ argsort_ties = "first"
    /\ similarity \in {ZeroSimilarity(n_experimental, dictionary_size),
                       SawSimilarity(n_experimental, dictionary_size)}
    /\ FreshLocals
    /\ calls = 1
    /\ first_result = <<>>
    /\ active = 1
    /\ \E k \in 1..2 : \E npi \in 1..dictionary_size :
          other = <<NotStarted(k, npi)>>
    /\ KernelIdle
    /\ RefineIdle

\* Variant: the running buffers are one pair of arrays used by both
\* invocations.
SwitchSharedBuffers ==
    /\ other # <<>>
    /\ other[1].pc \notin {"done", "error"}
    /\ other' = <<Suspended>>
    /\ active' = 3 - active
    /\ keep_n_arg' = other[1].keep_n_arg
    /\ n_per_iteration' = other[1].n_per_iteration
    /\ pc' = other[1].pc
    /\ keep_n' = other[1].keep_n
    /\ n_iterations' = other[1].n_iterations
    /\ chunk_starts' = other[1].chunk_starts
    /\ chunk_ends' = other[1].chunk_ends
    /\ it' = other[1].it
    /\ simulated' = other[1].simulated
    /\ scores_i' = other[1].scores_i
    /\ simulation_indices_i' = other[1].simulation_indices_i
    /\ xmap' = other[1].xmap
    /\ error' = other[1].error
    /\ is_fill' = other[1].is_fill
    /\ n_prepared' = other[1].n_prepared
    /\ n_merged' = other[1].n_merged
    /\ merged' = other[1].merged
    /\ experimental' = other[1].experimental
    /\ match_inputs' = other[1].match_inputs
    /\ UNCHANGED <<n_experimental, dictionary_size, similarity, sign,
                   exp_pixels, dict_pixels, topk_ties, argsort_ties, scores,
                   simulation_indices, calls, first_result, kernel_vars,
                   refine_vars>>

\* The scheduler suspends the running invocation between two statements and
\* resumes the other one: each invocation has its own frame of locals.
Switch ==
    /\ other # <<>>
    /\ other[1].pc \notin {"done", "error"}
    /\ other' = <<Suspended>>
    /\ active' = 3 - active
    /\ keep_n_arg' = other[1].keep_n_arg
    /\ n_per_iteration' = other[1].n_per_iteration
    /\ pc' = other[1].pc
    /\ keep_n' = other[1].keep_n
    /\ n_iterations' = other[1].n_iterations
    /\ chunk_starts' = other[1].chunk_starts
    /\ chunk_ends' = other[1].chunk_ends
    /\ it' = other[1].it
    /\ simulated' = other[1].simulated
    /\ scores_i' = other[1].scores_i
    /\ simulation_indices_i' = other[1].simulation_indices_i
    /\ scores' = other[1].scores
    /\ simulation_indices' = other[1].simulation_indices
    /\ xmap' = other[1].xmap
    /\ error' = other[1].error
    /\ is_fill' = other[1].is_fill
    /\ n_prepared' = other[1].n_prepared
    /\ n_merged' = other[1].n_merged
    /\ merged' = other[1].merged
    /\ experimental' = other[1].experimental
    /\ match_inputs' = other[1].match_inputs
    /\ UNCHANGED <<n_experimental, dictionary_size, similarity, sign,
                   exp_pixels, dict_pixels, topk_ties, argsort_ties, calls,
                   first_result, kernel_vars, refine_vars>>

NextTwoCalls ==
    \/ Enter
    \/ FastPath
    \/ InitBuffers
    \/ Materialise
    \/ MatchChunkStep
    \/ Merge
    \/ BuildXmap
    \/ Switch

SpecTwoCalls == InitTwoCalls /\ [][NextTwoCalls]_vars

\* ------------------------------------------------------------- properties
MultiPath == dictionary_size # n_per_iteration

Returned == pc = "done"

Rows == 1..n_experimental

\* One _match_chunk pass over the whole dictionary with the clamped keep_n.
SinglePass == MatchChunk(0, dictionary_size, keep_n)

\* The p-th best score of experimental row r among dictionary rows [0, e),
\* in the better-ordering of the metric.
NthBest(r, e, p) ==
    CHOOSE v \in {similarity[r][d] : d \in 0..(e - 1)} :
        /\ Cardinality({d \in 0..(e - 1) :
               sign * similarity[r][d] > sign * v}) < p
        /\ Cardinality({d \in 0..(e - 1) :
               sign * similarity[r][d] >= sign * v}) >= p

\* C1: on the multi-chunk path the returned scores and simulation_indices
\* equal, for every experimental row, those of one _match_chunk pass over the
\* whole dictionary with the same metric and keep_n.
C1_ChunkedEqualsSinglePass ==
    (Returned /\ MultiPath) =>
        /\ xmap[1].scores = SinglePass.scores
        /\ xmap[1].simulation_indices = SinglePass.simulation_indices

\* C2: after the merge of each chunk [start, end) the running buffers hold,
\* for every experimental row, the min(keep_n, end) best matches among the
\* dictionary rows [0, end), best first, and the remaining positions still
\* hold the initial fill.
C2_RunningTopK ==
    (pc = "loop" /\ n_merged >= 1) =>
        LET e == chunk_ends[it - 1]
            m == Min(keep_n, e)
        IN  \A r \in Rows : \A p \in 1..keep_n :
                IF p <= m
                THEN /\ ~is_fill[r][p]
                     /\ scores[r][p] = NthBest(r, e, p)
                     /\ simulation_indices[r][p] \in 0..(e - 1)
                     /\ similarity[r][simulation_indices[r][p]] = scores[r][p]
                ELSE is_fill[r][p]

\* C3: for dictionary_size >= n_per_iteration >= 1 the chunk ranges are
\* n_iterations = dictionary_size // n_per_iteration contiguous, disjoint
\* ranges in increasing order whose union is [0, dictionary_size): every
\* dictionary row lies in exactly one range, and a run that returns has
\* matched each range once.
C3_ChunksPartition ==
    (pc \in {"loop", "match", "merge", "build", "done"} /\ MultiPath) =>
        /\ Len(chunk_starts) = dictionary_size \div n_per_iteration
        /\ Len(chunk_ends) = dictionary_size \div n_per_iteration
        /\ n_iterations = dictionary_size \div n_per_iteration
        /\ chunk_starts[1] = 0
        /\ chunk_ends[Len(chunk_ends)] = dictionary_size
        /\ \A j \in 1..Len(chunk_starts) : chunk_starts[j] < chunk_ends[j]
        /\ \A j \in 1..(Len(chunk_starts) - 1) :
               chunk_ends[j] = chunk_starts[j + 1]
        /\ \A d \in 0..(dictionary_size - 1) :
               Cardinality({j \in 1..Len(chunk_starts) :
                   chunk_starts[j] <= d /\ d < chunk_ends[j]}) = 1
        /\ Returned => n_prepared = n_iterations /\ n_merged = n_iterations

C3_Witness ==
    /\ dictionary_size = 23
    /\ n_per_iteration = 10
    /\ chunk_starts = <<0, 10>>
    /\ chunk_ends = <<10, 23>>
    /\ Returned

\* C4: when keep_n > dictionary_size, keep_n is clamped to dictionary_size
\* without error and no entry of the returned simulation_indices is a
\* leftover of the initial fill of the running buffers.
C4_ClampedNoSentinel ==
    (Returned /\ keep_n_arg > dictionary_size) =>
        /\ keep_n = dictionary_size
        /\ \A r \in Rows :
              /\ Len(xmap[1].simulation_indices[r]) = dictionary_size
              /\ \A p \in 1..keep_n :
                    /\ ~is_fill[r][p]
                    /\ xmap[1].simulation_indices[r][p]
                           \in 0..(dictionary_size - 1)

\* C5: in the result and in the running buffers after every merge, the
\* keep_n scores of each experimental row are sorted best-first:
\* sign * scores[r][p] >= sign * scores[r][p + 1].
C5_SortedBestFirst ==
    (pc \in {"build", "done"} \/ (pc = "loop" /\ n_merged >= 1)) =>
        \A r \in Rows : \A p \in 1..(keep_n - 1) :
            sign * scores[r][p] >= sign * scores[r][p + 1]

\* The general path run with one chunk covering the whole dictionary: the
\* initial buffers merged with the top-k of that chunk.
OneChunkGeneralPath ==
    LET m == MatchChunk(0, dictionary_size, Min(keep_n, dictionary_size))
    IN  [scores |->
            MergeRows(InitialScores(n_experimental, keep_n), m.scores,
                      InitialScores(n_experimental, keep_n), m.scores, keep_n),
         simulation_indices |->
            MergeRows(InitialIndices(n_experimental, keep_n),
                      m.simulation_indices,
                      InitialScores(n_experimental, keep_n), m.scores, keep_n)]

\* C6: the output of the single-pass fast path equals the output of the
\* general multi-chunk path run with one chunk covering the whole dictionary.
C6_FastPathEqualsGeneral ==
    (Returned /\ ~MultiPath) =>
        /\ xmap[1].scores = OneChunkGeneralPath.scores
        /\ xmap[1].simulation_indices = OneChunkGeneralPath.simulation_indices

\* A call that ended without a failure of the storage or the scheduler.
EndedUndisturbed == pc \in {"done", "error"} /\ error # "IOError"

C8_ConfigErrorBeforeChunks ==
    (keep_n_arg <= 0 \/ n_per_iteration <= 0) =>
        /\ n_prepared = 0
        /\ xmap = <<>>
        /\ pc \notin {"match", "merge", "build", "done"}

\* C9: a run either returns a map in which every row holds the result of
\* merging all chunks, or raises: after a failure at chunk j no map is
\* returned and no later chunk is processed.
C9_AllOrNothingState ==
    /\ Returned =>
          /\ Len(xmap) = 1
          /\ xmap[1].scores = scores
          /\ xmap[1].simulation_indices = simulation_indices
          /\ \A r \in Rows : Len(scores[r]) = keep_n
          /\ MultiPath =>
                /\ n_merged = NChunks
                /\ n_prepared = NChunks
                /\ chunk_ends[NChunks] = dictionary_size
    /\ ~Returned => xmap = <<>>
    /\ pc = "error" => error # ""

C9_AllOrNothing ==
    /\ []C9_AllOrNothingState
    /\ [][pc = "error" => (pc' = "enter" /\ calls' = calls + 1)]_vars

C9_Witness ==
    /\ pc = "error"
    /\ error = "IOError"
    /\ n_merged >= 1
    /\ it <= NChunks
    /\ xmap = <<>>

\* C10: when the pattern-vector lengths of the prepared experimental patterns
\* and of the dictionary differ, the run fails with a shape-mismatch error at
\* the first chunk's prepare_dictionary/compare call: no chunk is merged and
\* no map is returned.
C10_ShapeMismatchFailsFast ==
    (exp_pixels # dict_pixels) =>
        /\ n_merged = 0
        /\ xmap = <<>>
        /\ pc \notin {"merge", "build", "done"}
        /\ n_prepared <= 1
        /\ n_prepared = 1 => (pc = "error" /\ error = "ShapeMismatch")

C10_Witness ==
    /\ exp_pixels # dict_pixels
    /\ pc = "error"
    /\ error = "ShapeMismatch"
    /\ MultiPath
    /\ n_prepared = 1
    /\ keep_n >= 1

\* The p-th best score of experimental row r among dictionary rows [s, e),
\* in the better-ordering of the metric.
NthBestIn(r, s, e, p) ==
    CHOOSE v \in {similarity[r][d] : d \in s..(e - 1)} :
        /\ Cardinality({d \in s..(e - 1) :
               sign * similarity[r][d] > sign * v}) < p
        /\ Cardinality({d \in s..(e - 1) :
               sign * similarity[r][d] >= sign * v}) >= p

\* Row arrays scs/indices hold the best of dictionary rows [s, e), best first,
\* with indices of exactly those scores.
BestOfChunk(scs, indices, s, e) ==
    \A r \in Rows : \A p \in 1..Len(scs[r]) :
        /\ scs[r][p] = NthBestIn(r, s, e, p)
        /\ indices[r][p] \in s..(e - 1)
        /\ similarity[r][indices[r][p]] = scs[r][p]

\* C11: _match_chunk selects, for each experimental row, the keep_n best
\* columns in the metric's better-ordering (largest first for sign = +1,
\* smallest first for sign = -1), with the columns of exactly those scores.
C11_MatchChunkSelectsBest ==
    /\ pc = "merge" =>
          BestOfChunk(scores_i, simulation_indices_i,
                      simulated[1], simulated[2])
    /\ (pc = "build" /\ ~MultiPath) =>
          BestOfChunk(scores, simulation_indices, 0, dictionary_size)

\* Among entries of equal score the lower dictionary index is ranked first,
\* and a dictionary row of [s, e) that was left out although it ties with a
\* kept entry has a higher index than that entry.
TiesLowestFirst(scs, indices, s, e) ==
    \A r \in Rows :
        /\ \A p \in 1..Len(scs[r]) : \A q \in 1..Len(scs[r]) :
              (p < q /\ scs[r][p] = scs[r][q]) => indices[r][p] < indices[r][q]
        /\ \A p \in 1..Len(scs[r]) : \A d \in s..(e - 1) :
              (/\ similarity[r][d] = scs[r][p]
               /\ \A q \in 1..Len(scs[r]) : indices[r][q] # d)
                  => d > indices[r][p]

\* C12: ties are broken by first occurrence, in _match_chunk and in the merge:
\* among tied dictionary rows the lowest global index is ranked first and is
\* the one kept.
C12_TiesFirstOccurrence ==
    /\ pc = "merge" =>
          TiesLowestFirst(scores_i, simulation_indices_i,
                          simulated[1], simulated[2])
    /\ (pc = "build" /\ ~MultiPath) =>
          TiesLowestFirst(scores, simulation_indices, 0, dictionary_size)
    /\ (pc = "build" /\ MultiPath) =>
          TiesLowestFirst(scores, simulation_indices, 0, dictionary_size)

\* C13: in the returned map the rotation at (r, p) is the dictionary rotation
\* at simulation_indices[r][p], and the properties scores and
\* simulation_indices are the final running buffers.
C13_MapFromBuffers ==
    Returned =>
        /\ Len(xmap) = 1
        /\ xmap[1].scores = scores
        /\ xmap[1].simulation_indices = simulation_indices
        /\ DOMAIN xmap[1].rotations = Rows
        /\ \A r \in Rows :
              /\ DOMAIN xmap[1].rotations[r] = 1..keep_n
              /\ \A p \in 1..keep_n :
                    xmap[1].rotations[r][p] =
                        DictionaryRotation(simulation_indices[r][p])

C13_Witness ==
    /\ Returned
    /\ keep_n >= 2
    /\ n_experimental >= 2
    /\ simulation_indices[1] # simulation_indices[2]
    /\ \E p \in 1..keep_n : simulation_indices[1][p] # p - 1

\* C17: the initial fill of the running scores is strictly worse than every
\* score the metric can produce, no fill entry ranks ahead of a real
\* candidate after a merge, and once keep_n dictionary rows have been merged
\* no fill entry remains.
C17_FillWorseThanReal ==
    /\ (pc = "loop" /\ n_merged = 0) =>
          \A r \in Rows : \A p \in 1..keep_n : \A v \in ScoreValues :
              sign * scores[r][p] < sign * v
    /\ (pc = "loop" /\ n_merged >= 1) =>
          \A r \in Rows :
              /\ \A p \in 1..keep_n : \A q \in 1..keep_n :
                    (p < q /\ is_fill[r][p]) => is_fill[r][q]
              /\ chunk_ends[it - 1] >= keep_n =>
                    \A p \in 1..keep_n : ~is_fill[r][p]

\* C18: after every merge scores and simulation_indices are index-aligned:
\* at every position that holds a real match, the score is the similarity of
\* the experimental row to the dictionary row of the stored global index.
C18_IndexAligned ==
    ((pc = "loop" /\ n_merged >= 1) \/ pc \in {"build", "done"}) =>
        \A r \in Rows : \A p \in 1..keep_n :
            ~is_fill[r][p] =>
                /\ simulation_indices[r][p] \in 0..(dictionary_size - 1)
                /\ scores[r][p] = similarity[r][simulation_indices[r][p]]

C18_Witness ==
    /\ pc = "loop"
    /\ n_merged >= 2
    /\ \E r \in Rows : \E p \in 1..keep_n :
          /\ ~is_fill[r][p]
          /\ simulation_indices[r][p] >= 1
          /\ scores[r][p] = similarity[r][simulation_indices[r][p]]
          /\ scores[r][p] # similarity[r][0]

\* C19: the indices _match_chunk returns for the chunk [start, end) lie in
\* [0, end - start), after the offset they lie in [start, end), and every
\* index in the running buffers and in the result lies in
\* [0, dictionary_size).
C19_IndicesInRange ==
    /\ pc = "merge" =>
          LET start == simulated[1]
              end == simulated[2]
              m == MatchChunk(start, end, Min(keep_n, end - start))
          IN  \A r \in Rows : \A p \in 1..Len(simulation_indices_i[r]) :
                  /\ m.simulation_indices[r][p] \in 0..(end - start - 1)
                  /\ simulation_indices_i[r][p] \in start..(end - 1)
    /\ \A r \in DOMAIN simulation_indices :
          \A p \in 1..Len(simulation_indices[r]) :
              simulation_indices[r][p] \in 0..(dictionary_size - 1)
    /\ Returned =>
          \A r \in Rows : \A p \in 1..keep_n :
              xmap[1].simulation_indices[r][p] \in 0..(dictionary_size - 1)

C19_Witness ==
    /\ pc = "merge"
    /\ simulated[1] >= 1
    /\ simulated[2] - simulated[1] >= 2
    /\ \E r \in Rows : \E p \in 1..Len(simulation_indices_i[r]) :
          simulation_indices_i[r][p] = simulated[2] - 1

\* C20: within each experimental row of the result the keep_n
\* simulation_indices are pairwise distinct.
C20_DistinctIndices ==
    Returned =>
        \A r \in Rows : \A p \in 1..keep_n : \A q \in 1..keep_n :
            p # q => xmap[1].simulation_indices[r][p]
                        # xmap[1].simulation_indices[r][q]

\* C21: on every call the driver makes to _match_chunk, on the fast path and
\* in every iteration of the loop, the keep_n it passes is at least 1 and at
\* most the number of rows of the chunk it passes.
C21_KeepNWithinChunk ==
    /\ (pc = "dispatch" /\ ~MultiPath) =>
          /\ 1 <= keep_n
          /\ keep_n <= dictionary_size
    /\ pc = "match" =>
          LET chunk_rows == simulated[2] - simulated[1]
              k == Min(keep_n, chunk_rows)
          IN  /\ 1 <= k
              /\ k <= chunk_rows

\* Rows of the j-th chunk of the loop.
ChunkRows(j) == chunk_ends[j] - chunk_starts[j]

\* C22: for dictionary_size >= n_per_iteration >= 1 every chunk except the
\* last has exactly n_per_iteration rows and the last has n_per_iteration +
\* (dictionary_size mod n_per_iteration) rows, which is at least
\* n_per_iteration and at most 2 * n_per_iteration - 1; the chunk in memory
\* has the rows of its position.
C22_ChunkSizes ==
    (/\ pc \in {"loop", "match", "merge", "build", "done"}
     /\ MultiPath
     /\ n_per_iteration >= 1
     /\ dictionary_size >= n_per_iteration) =>
        LET n == Len(chunk_starts)
        IN  /\ n >= 1
            /\ Len(chunk_ends) = n
            /\ \A j \in 1..(n - 1) : ChunkRows(j) = n_per_iteration
            /\ ChunkRows(n) =
                   n_per_iteration + (dictionary_size % n_per_iteration)
            /\ ChunkRows(n) >= n_per_iteration
            /\ ChunkRows(n) <= 2 * n_per_iteration - 1
            /\ pc \in {"match", "merge"} =>
                   simulated[2] - simulated[1] = ChunkRows(it)

C22_Witness ==
    /\ pc = "merge"
    /\ dictionary_size = 19
    /\ n_per_iteration = 5
    /\ it = 3
    /\ simulated = <<10, 19>>
    /\ Len(scores_i[1]) = 2

\* C23: for every n_per_iteration >= 1, also one larger than
\* dictionary_size, a call with an otherwise valid input does not fail while
\* the chunk ranges are built: a non-empty list of ranges covering
\* [0, dictionary_size) is built, and a call that returns has matched every
\* dictionary row.
C23_AnyChunkSizeTerminates ==
    (n_per_iteration >= 1 /\ keep_n_arg >= 1 /\ exp_pixels = dict_pixels) =>
        /\ error \in {"", "IOError"}
        /\ (pc \in {"loop", "match", "merge", "build", "done"} /\ MultiPath) =>
              /\ NChunks >= 1
              /\ \A d \in 0..(dictionary_size - 1) :
                    \E j \in 1..NChunks :
                        chunk_starts[j] <= d /\ d < chunk_ends[j]
        /\ (Returned /\ MultiPath) => n_merged = NChunks

\* The chunk at position j of the loop, as <<start, end>>.
ChunkAt(j) == <<chunk_starts[j], chunk_ends[j]>>

\* C24: on the multi-chunk path the chunks are processed one at a time in
\* strictly increasing order of their start: the chunk in memory is the one
\* after the chunks merged so far, it is matched once and merged once before
\* the next is materialised, and the loop ends after n_iterations merges.
C24_SequentialReduction ==
    (pc \in {"loop", "match", "merge", "build", "done"} /\ MultiPath) =>
        /\ \A j \in 1..(NChunks - 1) : chunk_starts[j] < chunk_starts[j + 1]
        /\ merged = [j \in 1..n_merged |-> j]
        /\ pc = "loop" =>
              /\ simulated = IF n_merged = 0 THEN <<>> ELSE ChunkAt(n_merged)
              /\ n_merged = it - 1
              /\ n_prepared = it - 1
        /\ pc = "match" =>
              /\ simulated = ChunkAt(n_merged + 1)
              /\ n_merged = it - 1
              /\ n_prepared = it - 1
        /\ pc = "merge" =>
              /\ simulated = ChunkAt(n_merged + 1)
              /\ n_merged = it - 1
              /\ n_prepared = it
        /\ pc \in {"build", "done"} =>
              /\ simulated = ChunkAt(n_merged)
              /\ n_merged = n_iterations
              /\ n_prepared = n_iterations
              /\ n_iterations = NChunks

C24_Witness ==
    /\ pc = "merge"
    /\ dictionary_size = 17
    /\ n_per_iteration = 4
    /\ merged = <<1, 2>>
    /\ simulated = <<8, 12>>
    /\ n_prepared = 3

\* The running scores after the chunks 1..j were merged in the order of the
\* loop (lines 111-126).
RECURSIVE ScoresInOrder(_)
ScoresInOrder(j) ==
    IF j = 0
    THEN InitialScores(n_experimental, keep_n)
    ELSE LET prev == ScoresInOrder(j - 1)
             rows == chunk_ends[j] - chunk_starts[j]
             m == MatchChunk(chunk_starts[j], chunk_ends[j], Min(keep_n, rows))
         IN  MergeRows(prev, m.scores, prev, m.scores, keep_n)

\* Number of positions of the row that hold the value v.
Count(row, v) == Cardinality({p \in DOMAIN row : row[p] = v})

\* C25: merging the same chunks into the initial buffers in any order gives,
\* for every experimental row, the same multiset of keep_n kept scores as
\* merging them in the order of the loop.
C25_MergeOrderIrrelevant ==
    (pc \in {"build", "done"} /\ MultiPath) =>
        LET in_order == ScoresInOrder(NChunks)
        IN  \A r \in Rows :
                /\ Len(scores[r]) = keep_n
                /\ \A v \in UnboundedScores :
                      Count(scores[r], v) = Count(in_order[r], v)

C25_Witness ==
    /\ Returned
    /\ merged = <<3, 1, 2>>
    /\ keep_n = 2
    /\ ~is_fill[1][1]
    /\ scores[1][1] # scores[1][2]

C27_ExperimentalPreparedOnce ==
    /\ experimental \in {0, 1}
    /\ experimental = 0 => (pc = "enter" \/ error = "ZeroDivisionError")
    /\ pc \in {"dispatch", "loop", "match", "merge", "build", "done"} =>
          experimental = 1
    /\ match_inputs \subseteq {1}
    /\ n_prepared >= 1 => match_inputs = {1}

C27_Witness ==
    /\ pc = "merge"
    /\ n_prepared = 4
    /\ n_merged = 3
    /\ experimental = 1
    /\ match_inputs = {1}

\* The running buffers of an invocation run alone, after the chunks 1..j
\* were merged (lines 95-96, 111-129).
RECURSIVE BuffersInOrder(_)
BuffersInOrder(j) ==
    IF j = 0
    THEN [scores |-> InitialScores(n_experimental, keep_n),
          simulation_indices |-> InitialIndices(n_experimental, keep_n)]
    ELSE LET prev == BuffersInOrder(j - 1)
             start == chunk_starts[j]
             end == chunk_ends[j]
             m == MatchChunk(start, end, Min(keep_n, end - start))
         IN  [scores |->
                 MergeRows(prev.scores, m.scores, prev.scores, m.scores,
                           keep_n),
              simulation_indices |->
                 MergeRows(prev.simulation_indices,
                           ToGlobal(m.simulation_indices, start),
                           prev.scores, m.scores, keep_n)]

\* The arrays an invocation run alone ends with.
AloneResult ==
    IF MultiPath
    THEN BuffersInOrder(NChunks)
    ELSE MatchChunk(0, dictionary_size, keep_n)

\* The running invocation is where it would be had it run alone.
AsRunAlone ==
    /\ (MultiPath /\ pc \in {"loop", "match", "merge"}) =>
          /\ scores = BuffersInOrder(n_merged).scores
          /\ simulation_indices = BuffersInOrder(n_merged).simulation_indices
    /\ pc \in {"build", "done"} =>
          /\ scores = AloneResult.scores
          /\ simulation_indices = AloneResult.simulation_indices
    /\ Returned =>
          xmap = <<CrystalMap(AloneResult.scores,
                              AloneResult.simulation_indices)>>
    /\ pc \notin {"done"} => xmap = <<>>
    /\ error = ""

\* The experimental patterns, the dictionary and the metric.
shared == <<n_experimental, dictionary_size, similarity, sign, exp_pixels,
            dict_pixels, topk_ties, argsort_ties>>

\* C28: two invocations of _dictionary_indexing whose statements interleave
\* in any order and which share the metric and the dictionary each hold, at
\* every step, the buffers they hold when run alone, and each returns the map
\* it returns when run alone; no step writes to the metric or the dictionary.
C28_TwoCallsIndependent ==
    /\ [](other # <<>> => AsRunAlone)
    /\ [][shared' = shared]_vars

C28_Witness ==
    /\ other # <<>>
    /\ pc = "merge"
    /\ n_merged = 1
    /\ other[1].pc = "merge"
    /\ other[1].n_prepared = 1
    /\ keep_n # other[1].keep_n
    /\ n_per_iteration # other[1].n_per_iteration
    /\ scores # other[1].scores

\* ------------------------------------------------ normalization kernels
\* Pixel values are exact fractions <<numerator, denominator>> in lowest
\* terms with a positive denominator; <<0, 0>> stands for a non-finite value
\* (the nan or inf of a division by zero).
NonFinite == <<0, 0>>

IsFinite(q) == q[2] # 0

Abs(x) == IF x < 0 THEN 0 - x ELSE x

RECURSIVE GCD(_, _)
GCD(a, b) == IF b = 0 THEN a ELSE GCD(b, a % b)

Reduce(n, d) ==
    IF d = 0 THEN NonFinite
    ELSE LET g == GCD(Abs(n), Abs(d))
             sgn == IF d < 0 THEN 0 - 1 ELSE 1
         IN  <<sgn * (n \div g), sgn * (d \div g)>>

QAdd(a, b) ==
    IF ~IsFinite(a) \/ ~IsFinite(b) THEN NonFinite
    ELSE Reduce(a[1] * b[2] + b[1] * a[2], a[2] * b[2])

QMul(a, b) ==
    IF ~IsFinite(a) \/ ~IsFinite(b) THEN NonFinite
    ELSE Reduce(a[1] * b[1], a[2] * b[2])

QDiv(a, b) ==
    IF ~IsFinite(a) \/ ~IsFinite(b) THEN NonFinite
    ELSE Reduce(a[1] * b[2], a[2] * b[1])

\* A non-negative integer is a perfect square.
IsSquare(x) == \E k \in 0..x : k * k = x

\* np.sqrt of a fraction whose root is a fraction.
QSqrt(a) ==
    IF ~IsFinite(a) THEN NonFinite
    ELSE <<CHOOSE k \in 0..a[1] : k * k = a[1],
           CHOOSE k \in 0..a[2] : k * k = a[2]>>

\* np.square(pattern)
Square(pattern) == [j \in DOMAIN pattern |-> QMul(pattern[j], pattern[j])]

RECURSIVE QSumTo(_, _)
QSumTo(pattern, j) ==
    IF j = 0 THEN <<0, 1>> ELSE QAdd(QSumTo(pattern, j - 1), pattern[j])

\* np.sum(pattern)
QSum(pattern) == QSumTo(pattern, Len(pattern))

\* Variant: the row is divided by the sum of squares, not by its root.
NormalizeBySquaredNorm(pattern) ==
    LET pattern_norm == QSum(Square(pattern))
    IN  [j \in DOMAIN pattern |-> QDiv(pattern[j], pattern_norm)]

\* _normalize_pattern1d_float32 / _float64:
\*   pattern_norm = np.sqrt(np.sum(np.square(pattern)))
\*   return pattern / pattern_norm
NormalizePattern1d(pattern) ==
    LET pattern_norm == QSqrt(QSum(Square(pattern)))
    IN  [j \in DOMAIN pattern |-> QDiv(pattern[j], pattern_norm)]

\* np.zeros_like(sim)
ZerosLike(a) == [i \in DOMAIN a |-> [j \in DOMAIN a[i] |-> <<0, 1>>]]

\* Integer rows of two pixels whose L2 norm is a fraction.
KernelRows ==
    {row \in [1..2 -> {<<n, 1>> : n \in (0 - MaxPixelValue)..MaxPixelValue}] :
        IsSquare(row[1][1] * row[1][1] + row[2][1] * row[2][1])}

\* The driver is not running.
DriverIdle ==
    /\ n_experimental = 1
    /\ dictionary_size = 1
    /\ similarity = ZeroSimilarity(1, 1)
    /\ keep_n_arg = 1
    /\ n_per_iteration = 1
    /\ sign = 1
    /\ exp_pixels = 2
    /\ dict_pixels = 2
    /\ topk_ties = "first"
    /\ argsort_ties = "first"
    /\ FreshLocals
    /\ calls = 0
    /\ first_result = <<>>
    /\ SingleCall

InitKernel ==
    /\ DriverIdle
    /\ RefineIdle
    /\ MetricIdle
    /\ \E n \in 1..MaxKernelRows : sim \in [1..n -> KernelRows]
    /\ simulated_prepared = <<>>
    /\ rows_done = {}
    /\ in_flight = <<>>
    /\ kernel_pc = "call"
    /\ passes = 1

\* simulated_prepared = np.zeros_like(sim)
KernelAlloc ==
    /\ kernel_pc = "call"
    /\ simulated_prepared' = ZerosLike(sim)
    /\ rows_done' = {}
    /\ in_flight' = [i \in DOMAIN sim |-> <<>>]
    /\ kernel_pc' = "loop"
    /\ UNCHANGED <<sim, passes, driver_vars, refine_vars, metric_vars>>

\* One iteration of "for i in nb.prange(sim.shape[0])", in any order.
KernelRow(i) ==
    /\ kernel_pc = "loop"
    /\ i \in DOMAIN sim
    /\ i \notin rows_done
    /\ in_flight[i] = <<>>
    /\ simulated_prepared' =
          [simulated_prepared EXCEPT ![i] = NormalizePattern1d(sim[i])]
    /\ rows_done' = rows_done \cup {i}
    /\ UNCHANGED <<sim, in_flight, kernel_pc, passes, driver_vars,
                   refine_vars, metric_vars>>

\* return simulated_prepared
KernelReturn ==
    /\ kernel_pc = "loop"
    /\ rows_done = DOMAIN sim
    /\ kernel_pc' = "returned"
    /\ UNCHANGED <<sim, simulated_prepared, rows_done, in_flight, passes,
                   driver_vars, refine_vars, metric_vars>>

\* The caller passes the prepared array to the kernel again.
KernelAgain ==
    /\ kernel_pc = "returned"
    /\ passes < MaxPasses
    /\ sim' = simulated_prepared
    /\ simulated_prepared' = <<>>
    /\ rows_done' = {}
    /\ in_flight' = <<>>
    /\ kernel_pc' = "call"
    /\ passes' = passes + 1
    /\ UNCHANGED <<driver_vars, refine_vars, metric_vars>>

NextKernel ==
    \/ KernelAlloc
    \/ \E i \in 1..MaxKernelRows : KernelRow(i)
    \/ KernelReturn
    \/ KernelAgain

SpecKernel == InitKernel /\ [][NextKernel]_vars

\* The squared L2 norm of a row.
SquaredNorm(pattern) == QSum(Square(pattern))

Sgn(x) == IF x > 0 THEN 1 ELSE IF x < 0 THEN 0 - 1 ELSE 0

\* The row has a finite norm other than zero.
HasNorm(v) == IsFinite(SquaredNorm(v)) /\ SquaredNorm(v) # <<0, 1>>

\* out is v / sqrt(sum(v_i^2)), stated without a root: each out_j has the
\* sign of v_j and out_j^2 * sum(v_i^2) = v_j^2.
IsL2Normalized(v, out) ==
    /\ DOMAIN out = DOMAIN v
    /\ \A j \in DOMAIN v :
          /\ IsFinite(out[j])
          /\ Sgn(out[j][1]) = Sgn(v[j][1])
          /\ QMul(QMul(out[j], out[j]), SquaredNorm(v)) = QMul(v[j], v[j])

\* C14: the kernel returns v / sqrt(sum(v_i^2)) for every row v (a quotient
\* that is not finite when the norm is zero); [3, 4] gives [0.6, 0.8]; a row
\* of unit norm is returned unchanged, so that normalizing a normalized
\* array changes nothing.  Arithmetic is exact, which is within any
\* floating-point tolerance.
C14_L2Normalization ==
    kernel_pc = "returned" =>
        /\ DOMAIN simulated_prepared = DOMAIN sim
        /\ \A i \in DOMAIN sim :
              /\ HasNorm(sim[i]) =>
                    /\ IsL2Normalized(sim[i], simulated_prepared[i])
                    /\ SquaredNorm(simulated_prepared[i]) = <<1, 1>>
              /\ ~HasNorm(sim[i]) =>
                    \A j \in DOMAIN sim[i] : ~IsFinite(simulated_prepared[i][j])
              /\ sim[i] = <<(<<3, 1>>), (<<4, 1>>)>> =>
                    simulated_prepared[i] = <<(<<3, 5>>), (<<4, 5>>)>>
              /\ SquaredNorm(sim[i]) = <<1, 1>> =>
                    simulated_prepared[i] = sim[i]
        /\ (passes >= 2 /\ \A i \in DOMAIN sim :
                               \A j \in DOMAIN sim[i] : IsFinite(sim[i][j]))
              => simulated_prepared = sim

C14_Witness ==
    /\ kernel_pc = "returned"
    /\ passes = 2
    /\ Len(sim) = 2
    /\ sim[1] = <<(<<3, 5>>), (<<4, 5>>)>>
    /\ simulated_prepared[1] = <<(<<3, 5>>), (<<4, 5>>)>>
    /\ simulated_prepared[2] = <<(<<0, 1>>), (<<0 - 1, 1>>)>>

\* --------------------------------- row iterations of the kernel, interleaved
\* The iterations of "for i in nb.prange(sim.shape[0])" run at the same time:
\* each evaluates _normalize_pattern1d(sim[i]) and stores the value in
\* simulated_prepared[i] later, with steps of other iterations in between.

\* The right-hand side of "simulated_prepared[i] = _normalize_pattern1d(sim[i])".
KernelRowCall(i) ==
    /\ kernel_pc = "loop"
    /\ i \in DOMAIN sim
    /\ i \notin rows_done
    /\ in_flight[i] = <<>>
    /\ in_flight' = [in_flight EXCEPT ![i] = NormalizePattern1d(sim[i])]
    /\ UNCHANGED <<sim, simulated_prepared, rows_done, kernel_pc, passes,
                   driver_vars, refine_vars, metric_vars>>

\* Variant: the value is stored in the next free row of the output, so that
\* the output is in the order in which the iterations finish.
KernelRowStoreNextFree(i) ==
    /\ kernel_pc = "loop"
    /\ i \in DOMAIN sim
    /\ i \notin rows_done
    /\ in_flight[i] # <<>>
    /\ simulated_prepared' =
          [simulated_prepared EXCEPT ![Cardinality(rows_done) + 1] =
              in_flight[i]]
    /\ rows_done' = rows_done \cup {i}
    /\ in_flight' = [in_flight EXCEPT ![i] = <<>>]
    /\ UNCHANGED <<sim, kernel_pc, passes, driver_vars,
                   refine_vars, metric_vars>>

\* The assignment of "simulated_prepared[i] = _normalize_pattern1d(sim[i])".
KernelRowStore(i) ==
    /\ kernel_pc = "loop"
    /\ i \in DOMAIN sim
    /\ i \notin rows_done
    /\ in_flight[i] # <<>>
    /\ simulated_prepared' = [simulated_prepared EXCEPT ![i] = in_flight[i]]
    /\ rows_done' = rows_done \cup {i}
    /\ in_flight' = [in_flight EXCEPT ![i] = <<>>]
    /\ UNCHANGED <<sim, kernel_pc, passes, driver_vars,
                   refine_vars, metric_vars>>

NextKernelRows ==
    \/ KernelAlloc
    \/ \E i \in 1..MaxKernelRows : KernelRowCall(i)
    \/ \E i \in 1..MaxKernelRows : KernelRowStore(i)
    \/ KernelReturn
    \/ KernelAgain

SpecKernelRows == InitKernel /\ [][NextKernelRows]_vars

\* The loop of the kernel run row after row, up to row i.
RECURSIVE SequentialLoop(_, _)
SequentialLoop(a, i) ==
    IF i = 0 THEN ZerosLike(a)
    ELSE [SequentialLoop(a, i - 1) EXCEPT ![i] = NormalizePattern1d(a[i])]

\* Two arrays have the same shape.
SameShape(a, b) ==
    /\ DOMAIN a = DOMAIN b
    /\ \A i \in DOMAIN a : DOMAIN a[i] = DOMAIN b[i]

RowsAsSequential ==
    kernel_pc \in {"loop", "returned"} =>
        LET sequential == SequentialLoop(sim, Len(sim))
        IN  /\ SameShape(simulated_prepared, sim)
            /\ \A i \in DOMAIN sim :
                  simulated_prepared[i] =
                      IF i \in rows_done THEN sequential[i]
                      ELSE ZerosLike(sim)[i]
            /\ kernel_pc = "returned" => simulated_prepared = sequential

\* C29: with the row iterations of the kernel run in any order and
\* interleaved, a finished iteration has written row i of the output and no
\* other row, and the value is the one the sequential loop writes there, so
\* that the array returned is the array of the sequential loop; the output
\* has the shape of the input, and the input array is not modified during
\* the call.
C29_RowIndependence ==
    /\ []RowsAsSequential
    /\ [][(kernel_pc \in {"call", "loop"}) => (sim' = sim)]_vars

C29_Witness ==
    /\ kernel_pc = "loop"
    /\ Len(sim) = 2
    /\ sim[1] # sim[2]
    /\ rows_done = {2}
    /\ in_flight[1] # <<>>
    /\ simulated_prepared[2] = <<(<<3, 5>>), (<<4, 5>>)>>

\* ------------------------------------------ signal mask of the metric
\* NormalizedDotProductMetric.prepare_all_experimental,
\* prepare_chunk_simulated and compare on one experimental pattern and one
\* dictionary pattern of MaxMaskColumns pixels.  signal_mask is the record
\* [is_int, array]: is_int is isinstance(self.signal_mask, int), array the
\* boolean vector over the pixel columns otherwise.  astype and rechunk
\* change the storage of the values and not the values.
MaskPixels == {0 - 4, 0, 3}

SignalMasks ==
    {NoSignalMask} \cup
    {[is_int |-> FALSE, array |-> a] : a \in [1..MaxMaskColumns -> BOOLEAN]}

RECURSIVE SelectColumnsFrom(_, _, _)
SelectColumnsFrom(row, mask, j) ==
    IF j > Len(row) THEN <<>>
    ELSE (IF mask[j] THEN <<row[j]>> ELSE <<>>)
             \o SelectColumnsFrom(row, mask, j + 1)

\* patterns[:, self.signal_mask] with a boolean vector
SelectColumns(patterns, mask) ==
    [r \in DOMAIN patterns |-> SelectColumnsFrom(patterns[r], mask, 1)]

\* if not isinstance(self.signal_mask, int):
\*     patterns = patterns[:, self.signal_mask]
ApplySignalMask(patterns) ==
    IF ~signal_mask.is_int THEN SelectColumns(patterns, signal_mask.array)
    ELSE patterns

\* patterns_norm = da.sqrt(da.sum(da.square(patterns), axis=1, keepdims=True))
\* patterns = patterns / patterns_norm
DivideByRowNorm(patterns) ==
    [r \in DOMAIN patterns |->
        LET patterns_norm == QSqrt(QSum(Square(patterns[r])))
        IN  [j \in DOMAIN patterns[r] |-> QDiv(patterns[r][j], patterns_norm)]]

\* The masked row has a norm that is a fraction.
MaskedNormIsFraction(row, mask) ==
    LET kept == SelectColumns(<<row>>, mask.array)[1]
        chosen == IF mask.is_int THEN row ELSE kept
        sum == QSum(Square(chosen))
    IN  IsSquare(sum[1])

MaskRows(mask) ==
    {row \in [1..MaxMaskColumns -> {<<n, 1>> : n \in MaskPixels}] :
        MaskedNormIsFraction(row, mask)}

InitMask ==
    /\ DriverIdle
    /\ RefineIdle
    /\ sim = <<>>
    /\ simulated_prepared = <<>>
    /\ rows_done = {}
    /\ in_flight = <<>>
    /\ kernel_pc = "idle"
    /\ passes = 0
    /\ signal_mask \in SignalMasks
    /\ exp_patterns \in [1..1 -> MaskRows(signal_mask)]
    /\ dict_patterns \in [1..1 -> MaskRows(signal_mask)]
    /\ exp_prepared = <<>>
    /\ similarities = <<>>
    /\ metric_pc = "start"
    /\ metric_error = ""

\* prepare_all_experimental: mask, then normalize.
PrepareAllExperimental ==
    /\ metric_pc = "start"
    /\ exp_prepared' = DivideByRowNorm(ApplySignalMask(exp_patterns))
    /\ metric_pc' = "experimental"
    /\ UNCHANGED <<signal_mask, exp_patterns, dict_patterns, similarities,
                   metric_error, sim, simulated_prepared, rows_done,
                   in_flight, kernel_pc, passes, driver_vars, refine_vars>>

\* Variant: the dictionary chunk is passed to the kernel unmasked.
PrepareChunkSimulatedUnmasked ==
    /\ metric_pc = "experimental"
    /\ sim' = dict_patterns
    /\ kernel_pc' = "call"
    /\ passes' = passes + 1
    /\ metric_pc' = "simulated"
    /\ UNCHANGED <<signal_mask, exp_patterns, dict_patterns, exp_prepared,
                   similarities, metric_error, simulated_prepared, rows_done,
                   in_flight, driver_vars, refine_vars>>

\* prepare_chunk_simulated: mask, then call the kernel (KernelAlloc,
\* KernelRow, KernelReturn).
PrepareChunkSimulated ==
    /\ metric_pc = "experimental"
    /\ sim' = ApplySignalMask(dict_patterns)
    /\ kernel_pc' = "call"
    /\ passes' = passes + 1
    /\ metric_pc' = "simulated"
    /\ UNCHANGED <<signal_mask, exp_patterns, dict_patterns, exp_prepared,
                   similarities, metric_error, simulated_prepared, rows_done,
                   in_flight, driver_vars, refine_vars>>

\* The contraction of two rows over the pixel axis.
RECURSIVE DotTo(_, _, _)
DotTo(a, b, j) ==
    IF j = 0 THEN <<0, 1>> ELSE QAdd(DotTo(a, b, j - 1), QMul(a[j], b[j]))

\* compare: da.einsum over the pixel axis of the prepared experimental and
\* the prepared chunk; operands of different lengths raise ValueError.
Compare ==
    /\ metric_pc = "simulated"
    /\ kernel_pc = "returned"
    /\ IF \E r \in DOMAIN exp_prepared : \E d \in DOMAIN simulated_prepared :
              Len(exp_prepared[r]) # Len(simulated_prepared[d])
       THEN /\ metric_error' = "ValueError"
            /\ similarities' = <<>>
       ELSE /\ metric_error' = ""
            /\ similarities' =
                  [r \in DOMAIN exp_prepared |->
                      [d \in DOMAIN simulated_prepared |->
                          DotTo(exp_prepared[r], simulated_prepared[d],
                                Len(exp_prepared[r]))]]
    /\ metric_pc' = "compared"
    /\ UNCHANGED <<signal_mask, exp_patterns, dict_patterns, exp_prepared,
                   sim, simulated_prepared, rows_done, in_flight, kernel_pc,
                   passes, driver_vars, refine_vars>>

NextMask ==
    \/ PrepareAllExperimental
    \/ PrepareChunkSimulated
    \/ KernelAlloc
    \/ \E i \in 1..MaxKernelRows : KernelRow(i)
    \/ KernelReturn
    \/ Compare

SpecMask == InitMask /\ [][NextMask]_vars

\* The columns the configured mask selects; all of them without a mask.
Selected ==
    IF signal_mask.is_int THEN 1..MaxMaskColumns
    ELSE {j \in 1..MaxMaskColumns : signal_mask.array[j]}

\* The k-th selected column.
KthSelected(k) ==
    CHOOSE j \in Selected : Cardinality({i \in Selected : i < j}) = k - 1

RECURSIVE SumOver(_, _, _)
SumOver(cols, a, b) ==
    IF cols = {} THEN 0
    ELSE LET j == CHOOSE c \in cols : TRUE
         IN  a[j][1] * b[j][1] + SumOver(cols \ {j}, a, b)

\* prepared is the selected columns of raw, in their order, divided by the
\* L2 norm of the selected columns alone.
IsMaskedThenNormalized(raw, prepared) ==
    LET norm2 == SumOver(Selected, raw, raw)
    IN  /\ Len(prepared) = Cardinality(Selected)
        /\ norm2 # 0 =>
              /\ SquaredNorm(prepared) = <<1, 1>>
              /\ \A k \in DOMAIN prepared :
                    LET v == raw[KthSelected(k)][1]
                    IN  /\ Sgn(prepared[k][1]) = Sgn(v)
                        /\ QMul(QMul(prepared[k], prepared[k]), <<norm2, 1>>)
                              = <<v * v, 1>>

\* The score is the dot product over the selected columns, divided by the
\* two norms over the selected columns.
IsMaskedDotProduct(e, d, score) ==
    LET dot == SumOver(Selected, e, d)
        e2 == SumOver(Selected, e, e)
        d2 == SumOver(Selected, d, d)
    IN  (e2 # 0 /\ d2 # 0) =>
            /\ Sgn(score[1]) = Sgn(dot)
            /\ QMul(QMul(score, score), <<e2 * d2, 1>>) = <<dot * dot, 1>>

\* C30: the experimental patterns and the dictionary chunk are cut to the
\* columns the signal mask selects before they are normalized (the array
\* handed to the kernel holds the selected columns only), so that both
\* prepared rows have the length of the selection, have unit norm over the
\* selected columns, and their score is the normalized dot product over the
\* selected columns alone; without a mask (the integer placeholder) the
\* selection is every column.
C30_SameMaskBeforeNormalization ==
    /\ metric_pc \in {"experimental", "simulated", "compared"} =>
          \A r \in DOMAIN exp_patterns :
              IsMaskedThenNormalized(exp_patterns[r], exp_prepared[r])
    /\ metric_pc \in {"simulated", "compared"} =>
          \A d \in DOMAIN dict_patterns :
              /\ Len(sim[d]) = Cardinality(Selected)
              /\ \A k \in DOMAIN sim[d] :
                    sim[d][k] = dict_patterns[d][KthSelected(k)]
    /\ (metric_pc \in {"simulated", "compared"} /\ kernel_pc = "returned") =>
          \A d \in DOMAIN dict_patterns :
              /\ IsMaskedThenNormalized(dict_patterns[d],
                                        simulated_prepared[d])
              /\ Len(simulated_prepared[d]) = Len(exp_prepared[1])
    /\ metric_pc = "compared" =>
          /\ metric_error = ""
          /\ \A r \in DOMAIN exp_patterns : \A d \in DOMAIN dict_patterns :
                IsMaskedDotProduct(exp_patterns[r], dict_patterns[d],
                                   similarities[r][d])
    /\ (metric_pc # "idle" /\ signal_mask.is_int) =>
          Selected = 1..MaxMaskColumns

C30_Witness ==
    /\ metric_pc = "compared"
    /\ ~signal_mask.is_int
    /\ signal_mask.array = <<TRUE, FALSE, TRUE>>
    /\ exp_patterns[1] = <<(<<3, 1>>), (<<3, 1>>), (<<0 - 4, 1>>)>>
    /\ dict_patterns[1] = <<(<<0 - 4, 1>>), (<<0 - 4, 1>>), (<<3, 1>>)>>
    /\ exp_prepared[1] = <<(<<3, 5>>), (<<0 - 4, 5>>)>>
    /\ simulated_prepared[1] = <<(<<0 - 4, 5>>), (<<3, 5>>)>>
    /\ similarities[1][1] = <<0 - 24, 25>>

\* ------------------------------------------------ orientation refinement
\* EBSD.refine_orientation is exercised by test_ebsd_refinement.py; its
\* argument checks are modelled from the calls of test_refine_check_raises
\* and test_refine_raises and the errors these expect.
SignalShapes == {<<2, 3>>, <<3, 2>>}

SupportedMethods == {"minimize", "differential_evolution"}

MsgDetectorShape == "Detector and signal must have the same shape"
MsgDetectorPC == "Detector must have exactly one PC or one PC per pattern"
MsgMethod == "Method not in the list of supported methods"
MsgSignalMask == "Signal mask and signal axes must have the same shape"
MsgPhases == "Crystal map must have exactly one phase"

RefineMessages ==
    {MsgDetectorShape, MsgDetectorPC, MsgMethod, MsgSignalMask, MsgPhases}

\* The arguments of one call: the signal (shape and navigation size), the
\* detector (shape and number of projection centers), the method name, the
\* optional signal mask (<<>> when not given) and the crystal map's phases.
RefineArgs ==
    [signal_shape : SignalShapes,
     nav_size : 1..MaxNav,
     detector_shape : SignalShapes,
     detector_n_pc : 1..MaxNav,
     method : SupportedMethods \cup {"a"},
     signal_mask : {<<>>} \cup {<<sh>> : sh \in SignalShapes},
     n_phases : 1..2]

DetectorShapeDiffers(args) == args.detector_shape # args.signal_shape

DetectorPCCountWrong(args) ==
    args.detector_n_pc # 1 /\ args.detector_n_pc # args.nav_size

MethodUnsupported(args) == args.method \notin SupportedMethods

SignalMaskShapeDiffers(args) ==
    args.signal_mask # <<>> /\ args.signal_mask[1] # args.signal_shape

MoreThanOnePhase(args) == args.n_phases # 1

\* Variant: the signal mask is not checked.
FailedChecksNoMask(args) ==
    {m \in RefineMessages :
        \/ m = MsgDetectorShape /\ DetectorShapeDiffers(args)
        \/ m = MsgDetectorPC /\ DetectorPCCountWrong(args)
        \/ m = MsgMethod /\ MethodUnsupported(args)
        \/ m = MsgPhases /\ MoreThanOnePhase(args)}

\* The messages of the checks the arguments fail.
FailedChecks(args) ==
    {m \in RefineMessages :
        \/ m = MsgDetectorShape /\ DetectorShapeDiffers(args)
        \/ m = MsgDetectorPC /\ DetectorPCCountWrong(args)
        \/ m = MsgMethod /\ MethodUnsupported(args)
        \/ m = MsgSignalMask /\ SignalMaskShapeDiffers(args)
        \/ m = MsgPhases /\ MoreThanOnePhase(args)}

InitRefine ==
    /\ DriverIdle
    /\ KernelIdle
    /\ refine_args \in RefineArgs
    /\ refine_pc = "call"
    /\ refine_error = ""
    /\ n_optimized = 0
    /\ refine_result = <<>>

\* The checks pass: the optimization may start.
RefineCheckPasses ==
    /\ refine_pc = "call"
    /\ FailedChecks(refine_args) = {}
    /\ refine_pc' = "optimize"
    /\ UNCHANGED <<refine_args, refine_error, n_optimized, refine_result,
                   driver_vars, kernel_vars>>

\* A check fails: ValueError with the message of a failed check (which of
\* several failed checks reports is not fixed by the tests).
RefineCheckRaises ==
    /\ refine_pc = "call"
    /\ \E m \in FailedChecks(refine_args) : refine_error' = m
    /\ refine_pc' = "error"
    /\ UNCHANGED <<refine_args, n_optimized, refine_result, driver_vars,
                   kernel_vars>>

\* The orientation of one navigation point is optimized.
RefineOptimize ==
    /\ refine_pc = "optimize"
    /\ n_optimized < refine_args.nav_size
    /\ n_optimized' = n_optimized + 1
    /\ UNCHANGED <<refine_args, refine_pc, refine_error, refine_result,
                   driver_vars, kernel_vars>>

\* The refined crystal map is returned.
RefineReturn ==
    /\ refine_pc = "optimize"
    /\ n_optimized = refine_args.nav_size
    /\ refine_result' = <<[size |-> refine_args.nav_size]>>
    /\ refine_pc' = "returned"
    /\ UNCHANGED <<refine_args, refine_error, n_optimized, driver_vars,
                   kernel_vars>>

NextRefine ==
    \/ RefineCheckPasses
    \/ RefineCheckRaises
    \/ RefineOptimize
    \/ RefineReturn

SpecRefine == InitRefine /\ [][NextRefine]_vars

\* One of the five invalid-input cases holds of the arguments.
InvalidRefineArgs(args) ==
    \/ DetectorShapeDiffers(args)
    \/ DetectorPCCountWrong(args)
    \/ MethodUnsupported(args)
    \/ SignalMaskShapeDiffers(args)
    \/ MoreThanOnePhase(args)

====
